---- MODULE Spec2Model ----
(***************************************************************************)
(* A model of ci-status.py: the check tasks (RepoSyncStatus,               *)
(* GithubRepoStatus), the loops that run them, the aggregation of their    *)
(* results and the composition of the status mail.                         *)
(*                                                                         *)
(* Text is a sequence of chunks (strings); the chunk NL is one line break, *)
(* so string concatenation is \o and a blank line is two adjacent NL.      *)
(***************************************************************************)
EXTENDS Integers, Sequences, FiniteSets, TLC

VARIABLES
    pc,          \* position of the running code
    sync_map,    \* the configured sync pairs iterated by check_repo_sync
    repo_list,   \* the configured hosted repos iterated by check_repo_status
    idx,         \* 1-based position of the running loop in its list
    sync_list,   \* ci_status: tasks appended by check_repo_sync
    check_list,  \* ci_status: tasks appended by check_repo_status
    cur,         \* the task object whose check() is running (self)
    frame,       \* the local variables of the running check()
    fs,          \* the workspace paths that exist on disk
    messages,    \* ci_status: the collected text
    sent,        \* bodies handed to session.sendmail, in order
    exit_status, \* the exit status of the process once it has ended
    runs         \* TaskSpec: the calls of check() made on one object so far

vars == <<pc, sync_map, repo_list, idx, sync_list, check_list, cur, frame, fs,
          messages, sent, exit_status, runs>>

----------------------------------------------------------------------------
(* Bounds of the model *)

MaxSync == 2      \* sync pairs configured (a prefix of REPO_SYNC_MAP)
MaxRepos == 1     \* hosted repos configured (a prefix of GITHUB_REPO_LIST)
MaxPRs == 1       \* open pull requests a hosted repo may report
MaxIssues == 3    \* entries a listing of open issues may hold
MaxRuns == 2      \* TaskSpec: calls of check() on one object
MaxTasks == 3     \* CollectSpec: length of the task list aggregated

NL == "\n"

\* The tip commit identifiers a remote branch may have.
SHA == {"abc123", "def456"}

----------------------------------------------------------------------------
(* Static configuration *)

GITHUB_REPO_LIST ==
    << "bluez/bluez", "bluez/bluetooth-next",
       "blueztestbot/bluez", "blueztestbot/bluetooth-next" >>

REPO_SYNC_MAP ==
    << [name |-> "bluez",
        src_repo |-> "https://git.kernel.org/pub/scm/bluetooth/bluez.git",
        src_branch |-> "master",
        dest_repo |-> "https://github.com/bluez/bluez",
        dest_branch |-> "master"],
       [name |-> "bluetooth-next",
        src_repo |-> "https://git.kernel.org/pub/scm/linux/kernel/git/bluetooth/bluetooth-next.git",
        src_branch |-> "master",
        dest_repo |-> "https://github.com/bluez/bluetooth-next",
        dest_branch |-> "master"],
       [name |-> "bluetooth-next:for-upstream",
        src_repo |-> "https://git.kernel.org/pub/scm/linux/kernel/git/bluetooth/bluetooth-next.git",
        src_branch |-> "for-upstream",
        dest_repo |-> "https://github.com/bluez/bluetooth-next",
        dest_branch |-> "for-upstream"],
       [name |-> "BluezTestBot:bluez",
        src_repo |-> "https://github.com/bluez/bluez",
        src_branch |-> "master",
        dest_repo |-> "https://github.com/BluezTestBot/bluez",
        dest_branch |-> "master"],
       [name |-> "BluezTestBot:bluetooth-next",
        src_repo |-> "https://github.com/bluez/bluetooth-next",
        src_branch |-> "master",
        dest_repo |-> "https://github.com/BluezTestBot/bluetooth-next",
        dest_branch |-> "master"],
       [name |-> "BluezTestBot:bluetooth-next:for-upstream",
        src_repo |-> "https://github.com/bluez/bluetooth-next",
        src_branch |-> "for-upstream",
        dest_repo |-> "https://github.com/BluezTestBot/bluetooth-next",
        dest_branch |-> "for-upstream"] >>

HEADER ==
    << NL, "Hi team,", NL, NL,
       "This email contains the status of the BlueZ and CI repositories in Github to", NL,
       "provide the synchronization status with the upstream repo and issue/PR counts.", NL,
       NL >>

FOOTER ==
    << NL, NL,
       "PS: This is automated email and please do not reply to this email!", NL,
       NL, "---", NL, "Regards,", NL, "Linux Bluetooth", NL >>

----------------------------------------------------------------------------
(* Verdict *)

PENDING == "PENDING"
PASS == "PASS"
FAIL == "FAIL"
ERROR == "ERROR"
SKIP == "SKIP"
WARNING == "WARNING"

Verdict == {PENDING, PASS, FAIL, ERROR, SKIP, WARNING}

----------------------------------------------------------------------------
(* StatusBase *)

\* self.result is None (here <<>>) until the first add_result.
add_result(self, result) ==
    IF self.result = <<>>
    THEN [self EXCEPT !.result = result]
    ELSE [self EXCEPT !.result = @ \o <<NL>> \o result]

get_result(self) == self.result

\* A task object as the class attributes leave it: result = None, verdict = None.
StatusBase(kind, name) ==
    [kind |-> kind, name |-> name, result |-> <<>>, verdict |-> "None"]

\* RepoSyncStatus.__init__; base_dir is BASE_DIR/name, kept as the name.
RepoSyncStatus(item) ==
    [add_result(StatusBase("sync", item.name), <<"Repo Sync: ", item.name>>)
        EXCEPT !.verdict = PASS]

\* GithubRepoStatus.__init__
GithubRepoStatus(repo) ==
    [add_result(StatusBase("status", repo), <<"Github Repo: ", repo>>)
        EXCEPT !.verdict = WARNING]

\* Workspace paths: self.base_dir + "_src" and self.base_dir + "_dest".
SrcPath(self) == <<self.name, "_src">>
DestPath(self) == <<self.name, "_dest">>

----------------------------------------------------------------------------
(* Collaborator wrappers *)

\* git_clone_repo with an existing to_path never deleted (delete_exist taken
\* as False): the existing workspace makes it return None.
git_clone_repo_keep(exists, delete_exist, rm_ok, clone_ok, tip) ==
    IF exists
    THEN [obj |-> "None", hexsha |-> "", present |-> TRUE]
    ELSE IF clone_ok
    THEN [obj |-> "Repo", hexsha |-> tip, present |-> TRUE]
    ELSE [obj |-> "raise", hexsha |-> "", present |-> FALSE]

\* git_clone_repo(repo, to_path, branch): what it returns or raises, and
\* whether to_path exists afterwards.  exists: os.path.exists(to_path);
\* rm_ok: shutil.rmtree succeeds; clone_ok: git.Repo.clone_from succeeds;
\* tip: the head commit of the branch cloned.
git_clone_repo(exists, delete_exist, rm_ok, clone_ok, tip) ==
    IF exists /\ ~delete_exist
    THEN [obj |-> "None", hexsha |-> "", present |-> TRUE]
    ELSE IF exists /\ ~rm_ok
    THEN [obj |-> "raise", hexsha |-> "", present |-> TRUE]
    ELSE IF clone_ok
    THEN [obj |-> "Repo", hexsha |-> tip, present |-> TRUE]
    ELSE [obj |-> "raise", hexsha |-> "", present |-> FALSE]

\* github_get_issues_only without the pull_request test: every entry is kept.
github_get_issues_all(all_issues) == all_issues

\* github_get_issues_only: all_issues is the listing, an entry being TRUE
\* when it carries a pull_request marker.
RECURSIVE github_get_issues_only(_)
github_get_issues_only(all_issues) ==
    IF all_issues = <<>> THEN <<>>
    ELSE IF ~Head(all_issues)
         THEN <<Head(all_issues)>> \o github_get_issues_only(Tail(all_issues))
         ELSE github_get_issues_only(Tail(all_issues))

----------------------------------------------------------------------------
(* The locals of a running check() *)

Unset == [obj |-> "unset", hexsha |-> "", present |-> FALSE]

NoFrame ==
    [repo_src |-> Unset, repo_dest |-> Unset,
     src_calls |-> 0, dest_calls |-> 0,
     github_repo |-> "unset", prs |-> 0, all_issues |-> <<>>,
     fs_before |-> {}, ret |-> 0]

NoTask == StatusBase("none", "")

NewFrame == [NoFrame EXCEPT !.fs_before = fs]

----------------------------------------------------------------------------
(* RepoSyncStatus.check, one step per collaborator call.  The parameters   *)
(* of a step are what the collaborator does when it is called.             *)

\* repo_src = git_clone_repo(self.src_repo, self.base_dir + "_src", ...)
\* and the test "if not repo_src".
SyncCloneSrcStep(rm_ok, clone_ok, tip) ==
    /\ pc = "sync_clone_src"
    /\ LET r == git_clone_repo(SrcPath(cur) \in fs, TRUE, rm_ok, clone_ok, tip)
       IN  /\ fs' = IF r.present THEN fs \cup {SrcPath(cur)}
                                 ELSE fs \ {SrcPath(cur)}
           /\ IF r.obj = "raise"
              THEN /\ pc' = "raised"
                   /\ frame' = [frame EXCEPT !.src_calls = @ + 1]
                   /\ cur' = cur
              ELSE IF r.obj = "None"
              THEN /\ pc' = "returned"
                   /\ frame' = [frame EXCEPT !.src_calls = @ + 1,
                                             !.repo_src = r, !.ret = -1]
                   /\ cur' = [add_result(cur, <<"   Results: Failed (",
                                                "Clone src repo failed", ")">>)
                                 EXCEPT !.verdict = ERROR]
              ELSE /\ pc' = "sync_clone_dest"
                   /\ frame' = [frame EXCEPT !.src_calls = @ + 1,
                                             !.repo_src = r]
                   /\ cur' = cur
    /\ UNCHANGED <<sync_map, repo_list, idx, sync_list, check_list, messages,
                   sent, exit_status, runs>>

\* repo_dest = git_clone_repo(self.dest_repo, self.base_dir + "_dest", ...)
\* and the test "if not repo_dest".
SyncCloneDestStep(rm_ok, clone_ok, tip) ==
    /\ pc = "sync_clone_dest"
    /\ LET r == git_clone_repo(DestPath(cur) \in fs, TRUE, rm_ok, clone_ok, tip)
       IN  /\ fs' = IF r.present THEN fs \cup {DestPath(cur)}
                                 ELSE fs \ {DestPath(cur)}
           /\ IF r.obj = "raise"
              THEN /\ pc' = "raised"
                   /\ frame' = [frame EXCEPT !.dest_calls = @ + 1]
                   /\ cur' = cur
              ELSE IF r.obj = "None"
              THEN /\ pc' = "returned"
                   /\ frame' = [frame EXCEPT !.dest_calls = @ + 1,
                                             !.repo_dest = r, !.ret = -1]
                   /\ cur' = [add_result(cur, <<"   Results: Fail (",
                                                "Clone dest repo failed", ")">>)
                                 EXCEPT !.verdict = ERROR]
              ELSE /\ pc' = "sync_compare"
                   /\ frame' = [frame EXCEPT !.dest_calls = @ + 1,
                                             !.repo_dest = r]
                   /\ cur' = cur
    /\ UNCHANGED <<sync_map, repo_list, idx, sync_list, check_list, messages,
                   sent, exit_status, runs>>

\* SyncCompare with the verdict left alone on a mismatch.
SyncCompareNoFail ==
    /\ pc = "sync_compare"
    /\ LET src_head_sha == frame.repo_src.hexsha
           dest_head_sha == frame.repo_dest.hexsha
           heads == add_result(add_result(cur, <<"   SRC HEAD:  ", src_head_sha>>),
                               <<"   DEST HEAD: ", dest_head_sha>>)
       IN  IF src_head_sha /= dest_head_sha
           THEN /\ cur' = add_result(heads, <<"   ", "Result: Fail (SHA mismatch)">>)
                /\ frame' = [frame EXCEPT !.ret = -1]
           ELSE /\ cur' = add_result(heads, <<"   ", "Result: Pass">>)
                /\ frame' = [frame EXCEPT !.ret = 0]
    /\ pc' = "returned"
    /\ UNCHANGED <<sync_map, repo_list, idx, sync_list, check_list, fs,
                   messages, sent, exit_status, runs>>

\* "Compare HEAD": both identifiers are recorded, then compared.
SyncCompare ==
    /\ pc = "sync_compare"
    /\ LET src_head_sha == frame.repo_src.hexsha
           dest_head_sha == frame.repo_dest.hexsha
           heads == add_result(add_result(cur, <<"   SRC HEAD:  ", src_head_sha>>),
                               <<"   DEST HEAD: ", dest_head_sha>>)
       IN  IF src_head_sha /= dest_head_sha
           THEN /\ cur' = [add_result(heads, <<"   ", "Result: Fail (SHA mismatch)">>)
                              EXCEPT !.verdict = FAIL]
                /\ frame' = [frame EXCEPT !.ret = -1]
           ELSE /\ cur' = add_result(heads, <<"   ", "Result: Pass">>)
                /\ frame' = [frame EXCEPT !.ret = 0]
    /\ pc' = "returned"
    /\ UNCHANGED <<sync_map, repo_list, idx, sync_list, check_list, fs,
                   messages, sent, exit_status, runs>>

----------------------------------------------------------------------------
(* GithubRepoStatus.check, one step per collaborator call *)

\* github_init: Github(token).get_repo(repo) returns the repository or raises.
github_init(ok) == IF ok THEN "Repository" ELSE "raise"

StatusInitStep(ok) ==
    /\ pc = "status_init"
    /\ LET github_repo == github_init(ok)
       IN  IF github_repo = "raise"
           THEN /\ pc' = "raised"
                /\ UNCHANGED <<cur, frame>>
           ELSE IF github_repo = "None"
           THEN /\ pc' = "returned"
                /\ frame' = [frame EXCEPT !.github_repo = github_repo, !.ret = -1]
                /\ cur' = [add_result(cur, <<"   ", "Result: Fail (Failed to init github repo)">>)
                              EXCEPT !.verdict = ERROR]
           ELSE /\ pc' = "status_pulls"
                /\ frame' = [frame EXCEPT !.github_repo = github_repo]
                /\ cur' = cur
    /\ UNCHANGED <<sync_map, repo_list, idx, sync_list, check_list, fs,
                   messages, sent, exit_status, runs>>

\* github_repo.get_pulls(state='open').totalCount: the count, or the query raises.
StatusPullsStep(ok, totalCount) ==
    /\ pc = "status_pulls"
    /\ IF ~ok
       THEN /\ pc' = "raised"
            /\ UNCHANGED <<cur, frame>>
       ELSE /\ pc' = "status_issues"
            /\ frame' = [frame EXCEPT !.prs = totalCount]
            /\ cur' = add_result(cur, <<"   PRs:    ", ToString(totalCount)>>)
    /\ UNCHANGED <<sync_map, repo_list, idx, sync_list, check_list, fs,
                   messages, sent, exit_status, runs>>

\* repo_issues = github_get_issues_only(github_repo): the listing is read and
\* filtered, or reading it raises.
StatusIssuesStep(ok, all_issues) ==
    /\ pc = "status_issues"
    /\ IF ~ok
       THEN /\ pc' = "raised"
            /\ UNCHANGED <<cur, frame>>
       ELSE LET repo_issues == github_get_issues_only(all_issues)
            IN  /\ pc' = "returned"
                /\ frame' = [frame EXCEPT !.all_issues = all_issues, !.ret = 0]
                /\ cur' = add_result(cur, <<"   Issues: ", ToString(Len(repo_issues))>>)
    /\ UNCHANGED <<sync_map, repo_list, idx, sync_list, check_list, fs,
                   messages, sent, exit_status, runs>>

----------------------------------------------------------------------------
(* Aggregation and the mail *)

\* collect_results: the loop over task_list, results starting as "".
RECURSIVE collect_loop(_, _)
collect_loop(results, task_list) ==
    IF task_list = <<>> THEN results
    ELSE LET task == Head(task_list)
         IN  IF task.verdict /= PASS
             THEN collect_loop(results \o <<NL>> \o get_result(task), Tail(task_list))
             ELSE collect_loop(results, Tail(task_list))

\* collect_results without the verdict test: every task's result is taken.
RECURSIVE collect_every(_, _)
collect_every(results, task_list) ==
    IF task_list = <<>> THEN results
    ELSE collect_every(results \o <<NL>> \o get_result(Head(task_list)),
                       Tail(task_list))

collect_results_every(task_list) == collect_every(<<>>, task_list)

collect_results(task_list) == collect_loop(<<>>, task_list)

SyncTitle == <<"##### Repository Synchronization Status #####", NL>>
StatusTitle == <<"##### Github Repository Status/Information #####", NL>>

\* ci_status with the two sections collected in the other order.
ci_messages_swapped(syncs, checks) ==
    SyncTitle \o collect_results(checks) \o <<NL, NL>>
        \o StatusTitle \o collect_results(syncs)

\* ci_status: messages built from the two lists.
ci_messages(syncs, checks) ==
    SyncTitle \o collect_results(syncs) \o <<NL, NL>>
        \o StatusTitle \o collect_results(checks)

\* compose_and_send: the body of the mail.
compose_body(msgs) == HEADER \o <<NL>> \o msgs \o <<NL>> \o FOOTER

----------------------------------------------------------------------------
(* main -> ci_status: the reporting cycle *)

\* main: parse_args, init, then ci_status starts check_repo_sync.
Main ==
    /\ pc = "main"
    /\ pc' = "check_repo_sync"
    /\ idx' = 1
    /\ UNCHANGED <<sync_map, repo_list, sync_list, check_list, cur, frame, fs,
                   messages, sent, exit_status, runs>>

\* check_repo_sync, loop body up to the call of check().
SyncNext ==
    /\ pc = "check_repo_sync"
    /\ idx <= Len(sync_map)
    /\ cur' = RepoSyncStatus(sync_map[idx])
    /\ frame' = NewFrame
    /\ pc' = "sync_clone_src"
    /\ UNCHANGED <<sync_map, repo_list, idx, sync_list, check_list, fs,
                   messages, sent, exit_status, runs>>

SyncCloneSrc ==
    \E rm_ok \in BOOLEAN, clone_ok \in BOOLEAN, tip \in SHA :
        SyncCloneSrcStep(rm_ok, clone_ok, tip)

SyncCloneDest ==
    \E rm_ok \in BOOLEAN, clone_ok \in BOOLEAN, tip \in SHA :
        SyncCloneDestStep(rm_ok, clone_ok, tip)

\* check_repo_sync: check() has returned; sync_list.append(repo_sync).
SyncAppend ==
    /\ pc = "returned"
    /\ cur.kind = "sync"
    /\ sync_list' = Append(sync_list, cur)
    /\ idx' = idx + 1
    /\ cur' = NoTask
    /\ frame' = NoFrame
    /\ pc' = "check_repo_sync"
    /\ UNCHANGED <<sync_map, repo_list, check_list, fs, messages, sent,
                   exit_status, runs>>

\* check_repo_sync returns; ci_status calls check_repo_status.
SyncDone ==
    /\ pc = "check_repo_sync"
    /\ idx > Len(sync_map)
    /\ pc' = "check_repo_status"
    /\ idx' = 1
    /\ UNCHANGED <<sync_map, repo_list, sync_list, check_list, cur, frame, fs,
                   messages, sent, exit_status, runs>>

\* check_repo_status, loop body up to the call of check().
StatusNext ==
    /\ pc = "check_repo_status"
    /\ idx <= Len(repo_list)
    /\ cur' = GithubRepoStatus(repo_list[idx])
    /\ frame' = NewFrame
    /\ pc' = "status_init"
    /\ UNCHANGED <<sync_map, repo_list, idx, sync_list, check_list, fs,
                   messages, sent, exit_status, runs>>

StatusInit == \E ok \in BOOLEAN : StatusInitStep(ok)

StatusPulls == \E ok \in BOOLEAN, n \in 0..MaxPRs : StatusPullsStep(ok, n)

\* The listings of open issues: sequences of pull_request markers.
Listings == UNION {[1..n -> BOOLEAN] : n \in 0..MaxIssues}

StatusIssues == \E ok \in BOOLEAN, l \in Listings : StatusIssuesStep(ok, l)

\* check_repo_status: check() has returned; check_list.append(check_repo).
StatusAppend ==
    /\ pc = "returned"
    /\ cur.kind = "status"
    /\ check_list' = Append(check_list, cur)
    /\ idx' = idx + 1
    /\ cur' = NoTask
    /\ frame' = NoFrame
    /\ pc' = "check_repo_status"
    /\ UNCHANGED <<sync_map, repo_list, sync_list, fs, messages, sent,
                   exit_status, runs>>

\* check_repo_status returns; ci_status collects all results.
Collect ==
    /\ pc = "check_repo_status"
    /\ idx > Len(repo_list)
    /\ messages' = ci_messages(sync_list, check_list)
    /\ pc' = "compose_and_send"
    /\ UNCHANGED <<sync_map, repo_list, idx, sync_list, check_list, cur, frame,
                   fs, sent, exit_status, runs>>

\* compose_and_send and send_email, then main returns.
\*   config_ok: init read a configuration with an [email] section, so that
\*              CONFIG['email'] does not raise;
\*   has_token: EMAIL_TOKEN is in the environment;
\*   smtp: "ok", or "connect_fail" (smtplib.SMTP raises: the finally clause's
\*         session.quit() then raises on the unbound session), or "send_fail"
\*         (a later call of the session raises: logged, the session is quit).
ComposeAndSend ==
    /\ pc = "compose_and_send"
    /\ \E config_ok \in BOOLEAN, has_token \in BOOLEAN,
          smtp \in {"ok", "connect_fail", "send_fail"} :
          LET body == compose_body(messages)
          IN  IF ~config_ok
              THEN pc' = "raised" /\ UNCHANGED <<sent, exit_status>>
              ELSE IF ~has_token
              THEN pc' = "done" /\ exit_status' = <<0>> /\ UNCHANGED sent
              ELSE IF smtp = "connect_fail"
              THEN pc' = "raised" /\ UNCHANGED <<sent, exit_status>>
              ELSE IF smtp = "send_fail"
              THEN pc' = "done" /\ exit_status' = <<0>> /\ UNCHANGED sent
              ELSE pc' = "done" /\ exit_status' = <<0>>
                   /\ sent' = Append(sent, body)
    /\ UNCHANGED <<sync_map, repo_list, idx, sync_list, check_list, cur, frame,
                   fs, messages, runs>>

\* An exception nobody catches ends the process with a traceback.
Crash ==
    /\ pc = "raised"
    /\ pc' = "crashed"
    /\ exit_status' = <<1>>
    /\ UNCHANGED <<sync_map, repo_list, idx, sync_list, check_list, cur, frame,
                   fs, messages, sent, runs>>

\* The workspaces of the configured pairs.
Workspaces(map) ==
    UNION {{<<map[i].name, "_src">>, <<map[i].name, "_dest">>} : i \in 1..Len(map)}

Init ==
    /\ pc = "main"
    /\ \E n \in 0..MaxSync :
          n <= Len(REPO_SYNC_MAP) /\ sync_map = SubSeq(REPO_SYNC_MAP, 1, n)
    /\ \E m \in 0..MaxRepos :
          m <= Len(GITHUB_REPO_LIST) /\ repo_list = SubSeq(GITHUB_REPO_LIST, 1, m)
    /\ idx = 1
    /\ sync_list = <<>>
    /\ check_list = <<>>
    /\ cur = NoTask
    /\ frame = NoFrame
    /\ fs \in {{}, Workspaces(sync_map)}
    /\ messages = <<>>
    /\ sent = <<>>
    /\ exit_status = <<>>
    /\ runs = <<>>

Next ==
    \/ Main
    \/ SyncNext
    \/ SyncCloneSrc
    \/ SyncCloneDest
    \/ SyncCompare
    \/ SyncAppend
    \/ SyncDone
    \/ StatusNext
    \/ StatusInit
    \/ StatusPulls
    \/ StatusIssues
    \/ StatusAppend
    \/ Collect
    \/ ComposeAndSend
    \/ Crash

Spec == Init /\ [][Next]_vars

----------------------------------------------------------------------------
(* TaskSpec: one RepoSyncStatus object whose check() is called repeatedly  *)
(* by a caller that catches what check() raises.  Each call runs against   *)
(* the remote state and file permissions recorded with it.                 *)

Remotes ==
    [src_ok : BOOLEAN, dest_ok : BOOLEAN, rm_ok : BOOLEAN,
     src_tip : SHA, dest_tip : SHA]

ThisRun == runs[Len(runs)]

\* repo_sync.check() is called.
TCall ==
    /\ pc = "t_idle"
    /\ Len(runs) < MaxRuns
    /\ \E remote \in Remotes :
          runs' = Append(runs,
                         [remote |-> remote,
                          before |-> cur.verdict,
                          had_ws |-> {SrcPath(cur), DestPath(cur)} \subseteq fs,
                          verdict |-> cur.verdict,
                          ret |-> 0,
                          outcome |-> "running"])
    /\ frame' = NewFrame
    /\ pc' = "sync_clone_src"
    /\ UNCHANGED <<sync_map, repo_list, idx, sync_list, check_list, cur, fs,
                   messages, sent, exit_status>>

TCloneSrc ==
    SyncCloneSrcStep(ThisRun.remote.rm_ok, ThisRun.remote.src_ok,
                     ThisRun.remote.src_tip)

TCloneDest ==
    SyncCloneDestStep(ThisRun.remote.rm_ok, ThisRun.remote.dest_ok,
                      ThisRun.remote.dest_tip)

\* check() has returned or raised; the caller reads the verdict.
TReturn ==
    /\ pc \in {"returned", "raised"}
    /\ runs' = [runs EXCEPT ![Len(runs)] =
                   [@ EXCEPT !.verdict = cur.verdict,
                             !.ret = frame.ret,
                             !.outcome = pc]]
    /\ frame' = NoFrame
    /\ pc' = "t_idle"
    /\ UNCHANGED <<sync_map, repo_list, idx, sync_list, check_list, cur, fs,
                   messages, sent, exit_status>>

TaskInit ==
    /\ pc = "t_idle"
    /\ sync_map = SubSeq(REPO_SYNC_MAP, 1, 1)
    /\ repo_list = <<>>
    /\ idx = 1
    /\ sync_list = <<>>
    /\ check_list = <<>>
    /\ cur = RepoSyncStatus(sync_map[1])
    /\ frame = NoFrame
    /\ fs \in {{}, Workspaces(sync_map)}
    /\ messages = <<>>
    /\ sent = <<>>
    /\ exit_status = <<>>
    /\ runs = <<>>

TaskNext ==
    \/ TCall
    \/ TCloneSrc
    \/ TCloneDest
    \/ SyncCompare
    \/ TReturn

TaskSpec == TaskInit /\ [][TaskNext]_vars

----------------------------------------------------------------------------
(* CollectSpec: collect_results applied to a task list *)

\* Task objects as check() may leave them, with any verdict.
SampleTasks ==
    LET s == RepoSyncStatus(REPO_SYNC_MAP[1])
        heads == add_result(add_result(s, <<"   SRC HEAD:  ", "abc123">>),
                            <<"   DEST HEAD: ", "def456">>)
    IN  { add_result(heads, <<"   ", "Result: Fail (SHA mismatch)">>),
          GithubRepoStatus(GITHUB_REPO_LIST[1]) }

TaskObjects == {[t EXCEPT !.verdict = v] : t \in SampleTasks, v \in Verdict}

TaskLists == UNION {[1..n -> TaskObjects] : n \in 0..MaxTasks}

CollectInit ==
    /\ pc = "collect_in"
    /\ sync_list \in TaskLists
    /\ sync_map = <<>>
    /\ repo_list = <<>>
    /\ idx = 1
    /\ check_list = <<>>
    /\ cur = NoTask
    /\ frame = NoFrame
    /\ fs = {}
    /\ messages = <<>>
    /\ sent = <<>>
    /\ exit_status = <<>>
    /\ runs = <<>>

\* messages = collect_results(sync_list)
CollectCall ==
    /\ pc = "collect_in"
    /\ messages' = collect_results(sync_list)
    /\ pc' = "collect_out"
    /\ UNCHANGED <<sync_map, repo_list, idx, sync_list, check_list, cur, frame,
                   fs, sent, exit_status, runs>>

CollectNext == CollectCall

CollectSpec == CollectInit /\ [][CollectNext]_vars

----------------------------------------------------------------------------
(* Properties *)

\* text holds the chunk sequence sub, contiguously.
ContainsSeq(text, sub) ==
    \E i \in 1..(Len(text) - Len(sub) + 1) :
        SubSeq(text, i, i + Len(sub) - 1) = sub

Contains(text, chunk) == ContainsSeq(text, <<chunk>>)

\* A check() of a GithubRepoStatus is over (returned, raised, or the process
\* died of what it raised) and the object and the locals are still in view.
StatusEnded == cur.kind = "status" /\ pc \in {"returned", "raised", "crashed"}

\* The fetch of the source was attempted and gave no repository.
SrcFetchFailed ==
    /\ cur.kind = "sync"
    /\ frame.src_calls = 1
    /\ frame.repo_src.obj /= "Repo"

\* C1: whenever the fetch of the source repo has failed, check() has returned
\* a failure indicator, the verdict is ERROR, the result holds "Clone src
\* repo failed", the destination fetch was not attempted and the destination
\* workspace is as it was before the call.
C1_SrcFailureIsReported ==
    SrcFetchFailed =>
        /\ pc = "returned"
        /\ frame.ret /= 0
        /\ cur.verdict = ERROR
        /\ Contains(cur.result, "Clone src repo failed")
        /\ frame.dest_calls = 0
        /\ (DestPath(cur) \in fs) = (DestPath(cur) \in frame.fs_before)

\* C2: when the run has ended, the sync list holds one task per configured
\* pair and the status list one task per configured repo, in configuration
\* order, whatever happened inside the tasks.
C2_EveryTaskCheckedAndAppended ==
    pc \in {"done", "crashed"} =>
        /\ Len(sync_list) = Len(sync_map)
        /\ Len(check_list) = Len(repo_list)
        /\ \A i \in 1..Len(sync_list) : sync_list[i].name = sync_map[i].name
        /\ \A i \in 1..Len(check_list) : check_list[i].name = repo_list[i]

\* check() of a fresh RepoSyncStatus has returned with both fetches done.
BothFetched ==
    /\ pc = "returned"
    /\ cur.kind = "sync"
    /\ frame.repo_src.obj = "Repo"
    /\ frame.repo_dest.obj = "Repo"

\* C3: after check() of a freshly constructed RepoSyncStatus whose two
\* fetches succeeded, the verdict is PASS exactly when the two tip
\* identifiers are equal and FAIL otherwise; the result holds both
\* identifiers, with "Result: Pass" when equal and "Result: Fail (SHA
\* mismatch)" when different.
C3_VerdictIsTipEquality ==
    BothFetched =>
        LET s == frame.repo_src.hexsha
            d == frame.repo_dest.hexsha
        IN  /\ (cur.verdict = PASS) = (s = d)
            /\ (cur.verdict = FAIL) = (s /= d)
            /\ ContainsSeq(cur.result, <<"   SRC HEAD:  ", s>>)
            /\ ContainsSeq(cur.result, <<"   DEST HEAD: ", d>>)
            /\ Contains(cur.result, "Result: Pass") = (s = d)
            /\ Contains(cur.result, "Result: Fail (SHA mismatch)") = (s /= d)

C3_Witness ==
    /\ BothFetched
    /\ frame.repo_src.hexsha /= frame.repo_dest.hexsha
    /\ cur.verdict = FAIL
    /\ frame.ret = -1

\* The tasks of task_list that a report includes, in input order.
Included(task_list) == SelectSeq(task_list, LAMBDA t : t.verdict /= PASS)

\* The length of the text that the first n included results take, each with
\* the line break that precedes it.
RECURSIVE Offset(_, _)
Offset(inc, n) ==
    IF n = 0 THEN 0 ELSE Offset(inc, n - 1) + 1 + Len(inc[n].result)

\* text is the included results in order, each preceded by one line break.
IsAggregateOf(text, task_list) ==
    LET inc == Included(task_list)
    IN  /\ Len(text) = Offset(inc, Len(inc))
        /\ \A i \in 1..Len(inc) :
              SubSeq(text, Offset(inc, i - 1) + 1, Offset(inc, i))
                  = <<NL>> \o inc[i].result

\* The results of inc joined with one blank line between consecutive ones.
RECURSIVE JoinBlank(_)
JoinBlank(inc) ==
    IF inc = <<>> THEN <<>>
    ELSE IF Len(inc) = 1 THEN inc[1].result
    ELSE inc[1].result \o <<NL, NL>> \o JoinBlank(Tail(inc))

\* C4 (as stated): collect_results returns empty text for an empty list,
\* nothing for a PASS task, and the full result of every other task in input
\* order, consecutive included results separated by exactly one blank line
\* (whatever line breaks lead the text).
C4_BlankLineSeparated ==
    pc = "collect_out" =>
        /\ (sync_list = <<>> => messages = <<>>)
        /\ \E lead \in {<<>>, <<NL>>, <<NL, NL>>} :
              messages = lead \o JoinBlank(Included(sync_list))

\* C4 (amended): collect_results returns empty text for an empty list,
\* nothing for a PASS task, and the full result of every other task in input
\* order, each included result preceded by exactly one line break, so that
\* consecutive included results are separated by a single line break with
\* no blank line between them.
C4_Aggregation ==
    pc = "collect_out" =>
        /\ (sync_list = <<>> => messages = <<>>)
        /\ IsAggregateOf(messages, sync_list)

C4_Witness ==
    /\ pc = "collect_out"
    /\ Len(sync_list) = 3
    /\ sync_list[1].verdict = FAIL
    /\ sync_list[2].verdict = PASS
    /\ sync_list[3].verdict = WARNING
    /\ messages = <<NL>> \o sync_list[1].result \o <<NL>> \o sync_list[3].result

AcceptedVerdict(task) == task.verdict \in {PASS, WARNING}

AllTasks == sync_list \o check_list

\* C5: once a cycle has run to its end, the exit status is 0 exactly when
\* every task of both lists has verdict PASS or WARNING, and non-zero when
\* some task has verdict FAIL or ERROR.
C5_ExitStatusReflectsVerdicts ==
    pc = "done" =>
        /\ (exit_status = <<0>>)
              = (\A i \in 1..Len(AllTasks) : AcceptedVerdict(AllTasks[i]))
        /\ (\E i \in 1..Len(AllTasks) : AllTasks[i].verdict \in {FAIL, ERROR})
              => exit_status /= <<0>>

\* The number of entries of a listing that carry no pull-request marker.
IssuesWithoutMarker(listing) ==
    Cardinality({i \in 1..Len(listing) : ~listing[i]})

\* C6: the issue count that GithubRepoStatus.check() records is the number
\* of listed entries without a pull-request marker.
C6_IssueCountExcludesPRs ==
    (pc = "returned" /\ cur.kind = "status") =>
        /\ Len(cur.result) >= 2
        /\ SubSeq(cur.result, Len(cur.result) - 1, Len(cur.result))
              = <<"   Issues: ", ToString(IssuesWithoutMarker(frame.all_issues))>>

C6_Witness ==
    /\ pc = "returned"
    /\ cur.kind = "status"
    /\ \E i, j \in 1..Len(frame.all_issues) :
          frame.all_issues[i] /\ ~frame.all_issues[j]
    /\ cur.result[Len(cur.result)] = "1"

\* C7: after GithubRepoStatus.check() the verdict is WARNING when the handle
\* and both counts were obtained, and ERROR, with a reason recorded and
\* check() having returned normally, when one of them failed; it is never
\* PASS.
C7_StatusVerdict ==
    StatusEnded =>
        /\ cur.verdict /= PASS
        /\ IF pc = "returned" /\ frame.ret = 0
           THEN cur.verdict = WARNING
           ELSE /\ pc = "returned"
                /\ cur.verdict = ERROR
                /\ Len(cur.result) > Len(GithubRepoStatus(cur.name).result)

\* C8: two calls of check() in a row on one RepoSyncStatus against the same
\* remote state leave the same verdict.
C8_SameRemoteSameVerdict ==
    \A i \in 1..(Len(runs) - 1) :
        ( /\ runs[i + 1].outcome /= "running"
          /\ runs[i].remote = runs[i + 1].remote )
        => runs[i].verdict = runs[i + 1].verdict

C8_Witness ==
    /\ Len(runs) = 2
    /\ runs[1].outcome = "returned"
    /\ runs[2].outcome = "returned"
    /\ runs[1].remote = runs[2].remote
    /\ ~runs[1].had_ws
    /\ runs[2].had_ws
    /\ runs[2].verdict = FAIL

\* C9: the verdict read after check() returns is decided by that call alone:
\* a call that returns success (the tips it fetched are equal) leaves PASS
\* and a call that finds different tips leaves FAIL, whatever the verdict
\* was before the call.
C9_VerdictSetOnEveryReturn ==
    \A i \in 1..Len(runs) :
        runs[i].outcome = "returned" =>
            /\ (runs[i].ret = 0) = (runs[i].verdict = PASS)
            /\ (runs[i].remote.src_tip = runs[i].remote.dest_tip)
                  => runs[i].verdict = PASS

\* C10: a sync check runs only after every earlier sync check was appended
\* and before any status check; a status check runs only after all sync
\* checks and every earlier status check; the report is composed only after
\* all checks; at most one mail is sent, and its body is the header, the sync
\* section, the separator, the status section and the footer in that order.
C10_CycleOrder ==
    /\ cur.kind = "sync" => (Len(sync_list) = idx - 1 /\ check_list = <<>>)
    /\ cur.kind = "status" =>
          (Len(sync_list) = Len(sync_map) /\ Len(check_list) = idx - 1)
    /\ (messages /= <<>> \/ sent /= <<>>) =>
          /\ cur.kind = "none"
          /\ Len(sync_list) = Len(sync_map)
          /\ Len(check_list) = Len(repo_list)
    /\ Len(sent) <= 1
    /\ sent /= <<>> =>
          LET body == sent[1]
              head == HEADER \o <<NL>> \o SyncTitle
              sep == <<NL, NL>> \o StatusTitle
              foot == <<NL>> \o FOOTER
              n1 == Offset(Included(sync_list), Len(Included(sync_list)))
              n2 == Offset(Included(check_list), Len(Included(check_list)))
              a == Len(head)
              b == a + n1
              c == b + Len(sep)
              d == c + n2
          IN  /\ Len(body) = d + Len(foot)
              /\ SubSeq(body, 1, a) = head
              /\ IsAggregateOf(SubSeq(body, a + 1, b), sync_list)
              /\ SubSeq(body, b + 1, c) = sep
              /\ IsAggregateOf(SubSeq(body, c + 1, d), check_list)
              /\ SubSeq(body, d + 1, Len(body)) = foot

C10_Witness ==
    /\ Len(sent) = 1
    /\ \E i \in 1..Len(sync_list) : sync_list[i].verdict = FAIL
    /\ \E i \in 1..Len(sync_list) : sync_list[i].verdict = PASS
    /\ Len(check_list) = Len(repo_list)
    /\ check_list /= <<>>

====
